---- MODULE Spec2Model ----
(***************************************************************************)
(* bedrock-web-recaptcha: the script loader (loadRecaptchaScript) and the  *)
(* token requester (getRecaptchaToken), in every variant the repository    *)
(* holds.  One step of the model is one job of the browser's event loop,   *)
(* run to completion: a call runs up to its first await; a timer, the      *)
(* vendor's ready-callback, the settlement of the vendor's execute call,   *)
(* the settlement of an awaited inner promise or a load/error event runs   *)
(* the continuation up to the next await.                                  *)
(***************************************************************************)
EXTENDS Integers, Sequences, FiniteSets, TLC

\* ------------------------------------------------------------------ bounds
MaxLoads == 2      \* loadRecaptchaScript calls in one behaviour
MaxRetries == 2    \* largest explicit `retries` option a caller passes
MaxI == 4          \* largest attempt counter `i` a caller passes
MaxEvents == 2     \* load/error handler invocations per script element

\* ------------------------------------------------------- program constants
DefaultRetries == 3
RetryLimit == 3

\* --------------------------------------------------------------- JS values
\* A JavaScript value is its type tag and its text.
Undefined == [t |-> "undefined", s |-> ""]
Null == [t |-> "null", s |-> ""]
Str(s) == [t |-> "string", s |-> s]
Num(s) == [t |-> "number", s |-> s]
ErrorObj(name, message) == [t |-> name, s |-> message]

IsError(v) == v.t \in {"Error", "TypeError", "TimeoutError"}

\* typeof v === 'string'
TypeofString(v) == v.t = "string"

\* ToBoolean(v) for the values above
Truthy(v) ==
  CASE v.t = "undefined" -> FALSE
    [] v.t = "null" -> FALSE
    [] v.t = "string" -> v.s # ""
    [] v.t = "number" -> v.s \notin {"0", "NaN"}
    [] OTHER -> TRUE

\* `${v}` : the text a template literal renders for v
TemplateText(v) ==
  CASE v.t = "undefined" -> "undefined"
    [] v.t = "null" -> "null"
    [] OTHER -> v.s

\* error.message : the property read; reading it off null or undefined throws
HasProperties(v) == v.t \notin {"undefined", "null"}
MessageOf(v) == IF IsError(v) THEN Str(v.s) ELSE Undefined

\* ------------------------------------------------------------------ inputs
SiteKeys == {Undefined, Str(""), Str("K"), Num("42")}
Actions == {Undefined, Str(""), Str("A")}
Tokens == {Str("TOK"), Str("TOK2")}
Rejections == {ErrorObj("Error", "boom"), Null}
RetriesOpts ==
  {[given |-> FALSE, n |-> 0]} \cup {[given |-> TRUE, n |-> k] : k \in -1..MaxRetries}
AttemptOpts == 0..MaxI     \* 0 stands for an omitted (or zero, equally falsy) i

\* The argument of a getRecaptchaToken call: absent, or an options object.
TokenArgs ==
  {[present |-> FALSE, siteKey |-> Undefined, action |-> Undefined,
    retries |-> [given |-> FALSE, n |-> 0], i |-> 0]}
  \cup
  [present : {TRUE}, siteKey : SiteKeys, action : Actions,
   retries : {[given |-> FALSE, n |-> 0]}, i : AttemptOpts]
  \cup
  [present : {TRUE}, siteKey : SiteKeys, action : Actions,
   retries : RetriesOpts, i : {0}]

TokenVariants == {"i", "le", "lt", "wait"}
LoaderVariants == {"emit", "url"}
EmitFns == {"fn", "throws", "absent"}
Targets == {Str("test-site-key"), Str("fake-url")}
\* what the error handler is invoked with: nothing, an event without an
\* Error in `error`, or an ErrorEvent carrying one
NoEvent == [present |-> FALSE, error |-> Undefined]
ErrorEvents ==
  {NoEvent} \cup
  [present : {TRUE}, error : {Undefined, Str("oops"), ErrorObj("Error", "net")}]

Loads == 1..MaxLoads

VARIABLES
  grecaptcha,   \* window.grecaptcha is present
  doc,          \* the script elements with id 'recaptcha-script' in document.head
  loads,        \* the loadRecaptchaScript calls
  calls         \* the getRecaptchaToken calls

vars == <<grecaptcha, doc, loads, calls>>

\* --------------------------------------------------------- token requester
IdleCall ==
  [st |-> "idle", variant |-> "i", arg |-> CHOOSE a \in TokenArgs : ~a.present,
   siteKey |-> Undefined, action |-> Undefined, retries |-> 0,
   retry |-> 0, delays |-> 0, reads |-> 0, readyCalls |-> 0, execCalls |-> 0,
   execArgs |-> <<>>, execOutcome |-> <<>>, absentAtCall |-> FALSE,
   helper |-> "none", helperError |-> Undefined,
   depth |-> 0, hops |-> 0, inner |-> "none", innerResult |-> Undefined,
   result |-> Undefined]

\* The frame `depth` recursive calls below the caller's own (lib/recaptcha.js
\* `return getRecaptchaToken({...})`) has settled its promise: each promise
\* above it, the caller's last, adopts the settlement in a microtask of its
\* own, `hops` of them in all.
Adopt(c, outcome, v, hops) ==
  [c EXCEPT !.st = "adopting", !.inner = outcome, !.innerResult = v,
            !.hops = hops]
\* throw e (the async function's promise is rejected with e)
Throw(c, e) ==
  IF c.depth = 0
    THEN [c EXCEPT !.st = "rejected", !.result = e]
    ELSE Adopt(c, "rejected", e, c.depth)
\* throw e before the first await of a recursive call: the promise is
\* already rejected when the frame above returns it, so that frame adopts it
\* through one more microtask (the job that calls its `then`)
ThrowAtEntry(c, e) ==
  IF c.depth = 0
    THEN [c EXCEPT !.st = "rejected", !.result = e]
    ELSE Adopt(c, "rejected", e, c.depth + 1)
\* return v
Return(c, v) ==
  IF c.depth = 0
    THEN [c EXCEPT !.st = "resolved", !.result = v]
    ELSE Adopt(c, "resolved", v, c.depth)
\* one microtask of the adoption: the next promise up takes the settlement,
\* the caller's own promise on the last one
AfterAdoption(c) ==
  IF c.hops > 1
    THEN [c EXCEPT !.hops = @ - 1]
    ELSE [c EXCEPT !.st = c.inner, !.result = c.innerResult, !.hops = 0]
\* await new Promise(resolve => setTimeout(resolve, delay))
AwaitDelay(c) == [c EXCEPT !.st = "delay", !.delays = @ + 1]
\* await new Promise(resolve => window.grecaptcha.ready(resolve))
AwaitReady(c) == [c EXCEPT !.st = "ready", !.readyCalls = @ + 1]
\* the read of window.grecaptcha
ReadGlobal(c) == [c EXCEPT !.reads = @ + 1]
\* `return` / `throw e` inside _waitForRecaptcha: the helper's own promise is
\* settled; the caller, suspended at `await _waitForRecaptcha(...)`, resumes
\* in a later microtask
HelperReturn(c) == [c EXCEPT !.st = "awaitHelper", !.helper = "returned"]
HelperThrow(c, e) ==
  [c EXCEPT !.st = "awaitHelper", !.helper = "thrown", !.helperError = e]

\* Parameter destructuring of lib/recaptcha.js: the default object applies
\* only when no argument is passed at all.
DestructureI(arg) ==
  IF arg.present
    THEN [siteKey |-> arg.siteKey, action |-> arg.action, i |-> arg.i]
    ELSE [siteKey |-> Undefined, action |-> Str("login"), i |-> 0]

\* Parameter destructuring of the retries variants: per-field defaults.
DestructureDefaults(arg) ==
  [siteKey |-> arg.siteKey,
   action |-> IF arg.action = Undefined THEN Str("login") ELSE arg.action,
   retries |-> IF arg.retries.given THEN arg.retries.n ELSE DefaultRetries]

\* if(typeof siteKey !== 'string') ... if(typeof action !== 'string') ...
ValidateTypes(c) ==
  IF ~TypeofString(c.siteKey)
    THEN ErrorObj("TypeError", "\"siteKey\" must be a string.")
  ELSE IF ~TypeofString(c.action)
    THEN ErrorObj("TypeError", "\"action\" must be a string.")
  ELSE Undefined

\* if(!siteKey || !action)
ValidateTruthy(c) ==
  IF ~Truthy(c.siteKey) \/ ~Truthy(c.action)
    THEN ErrorObj("Error", "Missing required params")
    ELSE Undefined

\* Enter_i with the limit off by one (i > 4)
Enter_i_offByOne(c, i) ==
  IF i # 0
    THEN IF i > RetryLimit + 1
           THEN ThrowAtEntry([c EXCEPT !.retry = i],
                      ErrorObj("Error", "Unable to load reCAPTCHA script"))
           ELSE AwaitDelay([c EXCEPT !.retry = i])
    ELSE [c EXCEPT !.retry = i]

\* lib/recaptcha.js, entry with attempt counter i: the limit, then the delay
Enter_i(c, i) ==
  IF i # 0
    THEN IF i > RetryLimit
           THEN ThrowAtEntry([c EXCEPT !.retry = i],
                      ErrorObj("Error", "Unable to load reCAPTCHA script"))
           ELSE AwaitDelay([c EXCEPT !.retry = i])
    ELSE [c EXCEPT !.retry = i]

\* Check_i with execute invoked without waiting for grecaptcha.ready
Check_i_noReady(c, present) ==
  IF ~present
    THEN Enter_i([ReadGlobal(c) EXCEPT !.depth = @ + 1],
                 IF c.retry = 0 THEN 1 ELSE c.retry + 1)
    ELSE [ReadGlobal(c) EXCEPT !.st = "executing", !.execCalls = @ + 1,
                               !.execArgs = <<c.siteKey, c.action>>]

\* lib/recaptcha.js after the delay: the check of the global, then either
\* the recursive call, one frame deeper, whose promise this frame returns,
\* or the ready/execute block
Check_i(c, present) ==
  IF ~present
    THEN Enter_i([ReadGlobal(c) EXCEPT !.depth = @ + 1],
                 IF c.retry = 0 THEN 1 ELSE c.retry + 1)
    ELSE AwaitReady(ReadGlobal(c))

getRecaptchaToken_i(c, present) ==
  LET e == Enter_i(c, c.retry)
  IN IF e.st = "called" THEN Check_i(e, present) ELSE e

\* LoopCond_le with the bound one too far
LoopCond_le_oneMore(retry, retries) == retry <= retries + 1

\* for(let retry = 0; retry <= retries; ++retry) of the first retries variant
LoopCond_le(retry, retries) == retry <= retries
\* for(let retry = 0; retry < retries; ++retry)
LoopCond_lt(retry, retries) == retry < retries

\* for(let retry = 0; retry < retries; ++retry) of _waitForRecaptcha
LoopCond_wait(retry, retries) == retry < retries

\* one pass of the loop head and body of the `<=` variant, up to its await
Loop_le(c, retry, present) ==
  IF LoopCond_le(retry, c.retries)
    THEN IF ~present
           THEN AwaitDelay(ReadGlobal([c EXCEPT !.retry = retry]))
           ELSE AwaitReady(ReadGlobal([c EXCEPT !.retry = retry]))
    ELSE Throw([c EXCEPT !.retry = retry], ErrorObj("Error", "reCAPTCHA not ready"))

\* one pass of the loop head and body of the `<` variant, up to its await
Loop_lt(c, retry, present) ==
  IF LoopCond_lt(retry, c.retries)
    THEN IF ~present
           THEN AwaitDelay(ReadGlobal([c EXCEPT !.retry = retry]))
           ELSE AwaitReady(ReadGlobal([c EXCEPT !.retry = retry]))
    ELSE Throw([c EXCEPT !.retry = retry], ErrorObj("Error", "reCAPTCHA not ready"))

\* one pass of _waitForRecaptcha's loop, up to its await, its return or its
\* throw
_waitForRecaptcha(c, retry, present) ==
  IF LoopCond_wait(retry, c.retries)
    THEN IF present
           THEN HelperReturn(ReadGlobal([c EXCEPT !.retry = retry]))
           ELSE AwaitDelay(ReadGlobal([c EXCEPT !.retry = retry]))
    ELSE HelperThrow([c EXCEPT !.retry = retry],
                     ErrorObj("TimeoutError", "reCAPTCHA script failed to load"))

\* getRecaptchaToken resumed after `await _waitForRecaptcha({retries, delay})`:
\* the helper's error leaves the function, or the ready/execute block starts
AfterHelper(c) ==
  IF c.helper = "thrown"
    THEN Throw(c, c.helperError)
    ELSE AwaitReady(c)

getRecaptchaToken_le(c, present) ==
  IF ValidateTruthy(c) # Undefined
    THEN Throw(c, ValidateTruthy(c))
    ELSE Loop_le(c, 0, present)

getRecaptchaToken_lt(c, present) ==
  IF ValidateTypes(c) # Undefined
    THEN Throw(c, ValidateTypes(c))
    ELSE Loop_lt(c, 0, present)

getRecaptchaToken_wait(c, present) ==
  IF ValidateTypes(c) # Undefined
    THEN Throw(c, ValidateTypes(c))
    ELSE _waitForRecaptcha(c, 0, present)

\* The record of a fresh call: the destructured parameters.
NewCall(variant, arg) ==
  LET d == IF variant = "i" THEN DestructureI(arg) ELSE DestructureDefaults(arg)
  IN [IdleCall EXCEPT
        !.st = "called", !.variant = variant, !.arg = arg,
        !.siteKey = d.siteKey, !.action = d.action,
        !.retries = IF variant = "i" THEN RetryLimit ELSE d.retries,
        !.retry = IF variant = "i" THEN d.i ELSE 0]

\* The continuation after a polling delay.
AfterDelay(c, present) ==
  CASE c.variant = "i" -> Check_i(c, present)
    [] c.variant = "le" -> Loop_le(c, c.retry + 1, present)
    [] c.variant = "lt" -> Loop_lt(c, c.retry + 1, present)
    [] c.variant = "wait" -> _waitForRecaptcha(c, c.retry + 1, present)

\* the wait for ready written without passing resolve: it never ends
InvokeExecute_noResolve(c) == c

\* token = await window.grecaptcha.execute(siteKey, {action})
InvokeExecute(c) ==
  [c EXCEPT !.st = "executing", !.execCalls = @ + 1,
            !.execArgs = <<c.siteKey, c.action>>]

\* ExecuteResolved with the token dropped (a bare `return`)
ExecuteResolved_noToken(c, token) ==
  Return([c EXCEPT !.execOutcome = <<"resolved", token>>], Undefined)

\* ExecuteResolved returning a token cached by an earlier resolved call
ExecuteResolved_cached(c, token) ==
  LET done == {j \in DOMAIN calls : calls[j].st = "resolved"}
  IN Return([c EXCEPT !.execOutcome = <<"resolved", token>>],
            IF done = {} THEN token ELSE calls[CHOOSE j \in done : TRUE].result)

\* return token
ExecuteResolved(c, token) ==
  Return([c EXCEPT !.execOutcome = <<"resolved", token>>], token)

\* catch(error) { throw new Error(`Unable to receive token: ${error.message}`) }
ExecuteRejected(c, error) ==
  LET d == [c EXCEPT !.execOutcome = <<"rejected", error>>]
  IN IF HasProperties(error)
       THEN Throw(d, ErrorObj("Error",
                  "Unable to receive token: " \o TemplateText(MessageOf(error))))
       ELSE Throw(d, ErrorObj("TypeError",
                  "Cannot read properties of " \o TemplateText(error)
                  \o " (reading 'message')"))

\* ------------------------------------------------------------------ actions
GetToken(k, variant, arg) ==
  /\ calls[k].st = "idle"
  /\ \A j \in DOMAIN calls : j < k => calls[j].st # "idle"
  /\ LET c == [NewCall(variant, arg) EXCEPT !.absentAtCall = ~grecaptcha]
     IN calls' = [calls EXCEPT ![k] =
          CASE variant = "i" -> getRecaptchaToken_i(c, grecaptcha)
            [] variant = "le" -> getRecaptchaToken_le(c, grecaptcha)
            [] variant = "lt" -> getRecaptchaToken_lt(c, grecaptcha)
            [] variant = "wait" -> getRecaptchaToken_wait(c, grecaptcha)]
  /\ UNCHANGED <<grecaptcha, doc, loads>>

TimerFires(k) ==
  /\ calls[k].st = "delay"
  /\ calls' = [calls EXCEPT ![k] = AfterDelay(calls[k], grecaptcha)]
  /\ UNCHANGED <<grecaptcha, doc, loads>>

\* the microtask that resumes getRecaptchaToken once the helper's promise
\* has settled
HelperSettles(k) ==
  /\ calls[k].st = "awaitHelper"
  /\ calls' = [calls EXCEPT ![k] = AfterHelper(calls[k])]
  /\ UNCHANGED <<grecaptcha, doc, loads>>

\* a microtask in which a promise of the recursion adopts the settlement of
\* the promise below it
PromiseAdopts(k) ==
  /\ calls[k].st = "adopting"
  /\ calls' = [calls EXCEPT ![k] = AfterAdoption(calls[k])]
  /\ UNCHANGED <<grecaptcha, doc, loads>>

ReadyFires(k) ==
  /\ calls[k].st = "ready"
  /\ calls' = [calls EXCEPT ![k] = InvokeExecute(calls[k])]
  /\ UNCHANGED <<grecaptcha, doc, loads>>

ExecuteResolves(k, token) ==
  /\ calls[k].st = "executing"
  /\ calls' = [calls EXCEPT ![k] = ExecuteResolved(calls[k], token)]
  /\ UNCHANGED <<grecaptcha, doc, loads>>

ExecuteRejects(k, error) ==
  /\ calls[k].st = "executing"
  /\ calls' = [calls EXCEPT ![k] = ExecuteRejected(calls[k], error)]
  /\ UNCHANGED <<grecaptcha, doc, loads>>

\* The vendor script defines window.grecaptcha.
VendorAppears ==
  /\ ~grecaptcha
  /\ grecaptcha' = TRUE
  /\ UNCHANGED <<doc, loads, calls>>

\* ----------------------------------------------------------- script loader
IdleLoad ==
  [st |-> "idle", variant |-> "emit", emitFn |-> "absent", promise |-> "none",
   reason |-> Undefined, cause |-> Undefined, fast |-> FALSE, log |-> <<>>,
   inner |-> "none", innerReason |-> Undefined, innerCause |-> Undefined]

\* The script element: its src, the call whose onload/onerror closures it
\* carries, and the number of times a handler of it has been invoked.
Element(l, src) == [owner |-> l, src |-> src, fired |-> 0]

\* the fast-path test without the look-up of the element
AlreadyLoaded_globalOnly == grecaptcha
\* the fast-path test without the check of the vendor global
AlreadyLoaded_elementOnly == Len(doc) > 0

\* window.grecaptcha || document.getElementById('recaptcha-script')
AlreadyLoaded_emit == grecaptcha \/ Len(doc) > 0
AlreadyLoaded_url == grecaptcha \/ Len(doc) > 0

\* resolve() / reject(e) of the call's promise: only the first one settles it
Resolve(ld) ==
  [ld EXCEPT !.promise = IF @ = "pending" THEN "resolved" ELSE @,
             !.log = Append(@, [op |-> "resolve", err |-> Undefined])]
Reject(ld, wrapped, original) ==
  [ld EXCEPT !.promise = IF @ = "pending" THEN "rejected" ELSE @,
             !.reason = IF ld.promise = "pending" THEN wrapped ELSE @,
             !.cause = IF ld.promise = "pending" THEN original ELSE @,
             !.log = Append(@, [op |-> "reject", err |-> wrapped])]

\* resolve() / reject(e) of the promise the url variant awaits (`await new
\* Promise((resolve, reject) => ...)`): the promise the call returned is
\* settled when the async function resumes, not here
ResolveInner(ld) ==
  [ld EXCEPT !.inner = IF @ = "pending" THEN "resolved" ELSE @,
             !.log = Append(@, [op |-> "resolve", err |-> Undefined])]
RejectInner(ld, wrapped, original) ==
  [ld EXCEPT !.inner = IF @ = "pending" THEN "rejected" ELSE @,
             !.innerReason = IF ld.inner = "pending" THEN wrapped ELSE @,
             !.innerCause = IF ld.inner = "pending" THEN original ELSE @,
             !.log = Append(@, [op |-> "reject", err |-> wrapped])]
\* the async function resumed at its await: it returns, or the awaited
\* promise's error leaves it
AfterInner(ld) ==
  IF ld.inner = "rejected"
    THEN [ld EXCEPT !.promise = "rejected", !.reason = ld.innerReason,
                    !.cause = ld.innerCause]
    ELSE [ld EXCEPT !.promise = "resolved"]

\* event?.error instanceof Error ? event.error : new Error('Unknown ...')
OriginalOf(ev) ==
  IF ev.present /\ IsError(ev.error)
    THEN ev.error
    ELSE ErrorObj("Error", "Unknown error loading reCAPTCHA")

Wrapped == ErrorObj("Error", "Failed to load reCAPTCHA script")

\* emitFn('error', original): the call is made when emitFn is a function;
\* calling an absent emitFn, or one that throws, ends the handler there
Emit(ld, original) ==
  IF ld.emitFn = "absent"
    THEN ld
    ELSE [ld EXCEPT !.log = Append(@, [op |-> "emit", err |-> original])]
\* the emitFn call guarded (try/catch, optional call): it always returns
EmitReturns_always(ld) == TRUE
EmitReturns(ld) == ld.emitFn = "fn"

\* onerror_emit with reject(wrapped) placed before emitFn('error', original)
onerror_emit_rejectFirst(ld, ev) ==
  LET r == Reject(ld, Wrapped, OriginalOf(ev))
  IN Emit(r, OriginalOf(ev))

\* script.onerror of the emitFn variant
onerror_emit(ld, ev) ==
  LET e == Emit(ld, OriginalOf(ev))
  IN IF EmitReturns(ld) THEN Reject(e, Wrapped, OriginalOf(ev)) ELSE e

\* script.onerror of the url variant
onerror_url(ld, ev) == RejectInner(ld, Wrapped, OriginalOf(ev))

\* script.onload of the emitFn variant
onload(ld) == Resolve(ld)
\* script.onload of the url variant
onload_url(ld) == ResolveInner(ld)

\* The record of a fresh call.
NewLoad(variant, emitFn) ==
  [IdleLoad EXCEPT !.st = "called", !.variant = variant, !.emitFn = emitFn,
                   !.promise = "pending"]

\* loadRecaptchaScript_emit whose fast path waits for the load in progress
loadRecaptchaScript_emit_sharePending(l, target, emitFn) ==
  IF AlreadyLoaded_emit
    THEN <<doc, [NewLoad("emit", emitFn) EXCEPT
                   !.promise = IF grecaptcha THEN "resolved" ELSE "pending",
                   !.fast = TRUE]>>
    ELSE <<Append(doc, Element(l,
             "https://www.google.com/recaptcha/api.js?render=" \o target.s)),
           NewLoad("emit", emitFn)>>

\* loadRecaptchaScript({siteKey, emitFn}): <<document, call>> after the call
loadRecaptchaScript_emit(l, target, emitFn) ==
  IF AlreadyLoaded_emit
    THEN <<doc, [NewLoad("emit", emitFn) EXCEPT !.promise = "resolved",
                                                 !.fast = TRUE]>>
    ELSE <<Append(doc, Element(l,
             "https://www.google.com/recaptcha/api.js?render=" \o target.s)),
           NewLoad("emit", emitFn)>>

\* loadRecaptchaScript({url}): <<document, call>> after the call
loadRecaptchaScript_url(l, target, emitFn) ==
  IF AlreadyLoaded_url
    THEN <<doc, [NewLoad("url", emitFn) EXCEPT !.promise = "resolved",
                                                !.fast = TRUE]>>
    ELSE <<Append(doc, Element(l, target.s)),
           [NewLoad("url", emitFn) EXCEPT !.inner = "pending"]>>

LoadScript(l, variant, target, emitFn) ==
  /\ loads[l].st = "idle"
  /\ \A j \in Loads : j < l => loads[j].st # "idle"
  /\ (variant = "url") => emitFn = "absent"
  /\ LET r == IF variant = "emit"
                THEN loadRecaptchaScript_emit(l, target, emitFn)
                ELSE loadRecaptchaScript_url(l, target, emitFn)
     IN /\ doc' = r[1]
        /\ loads' = [loads EXCEPT ![l] = r[2]]
  /\ UNCHANGED <<grecaptcha, calls>>

\* The element's load handler is invoked.
FireLoad(e) ==
  /\ e \in DOMAIN doc
  /\ doc[e].fired < MaxEvents
  /\ doc' = [doc EXCEPT ![e].fired = @ + 1]
  /\ loads' = [loads EXCEPT ![doc[e].owner] =
       IF @.variant = "emit" THEN onload(@) ELSE onload_url(@)]
  /\ UNCHANGED <<grecaptcha, calls>>

\* The microtask that resumes the url variant once the promise it awaits has
\* settled.
LoadResumes(l) ==
  /\ loads[l].variant = "url"
  /\ loads[l].promise = "pending" /\ loads[l].inner \in {"resolved", "rejected"}
  /\ loads' = [loads EXCEPT ![l] = AfterInner(@)]
  /\ UNCHANGED <<grecaptcha, doc, calls>>

\* FireError with the failed element removed from the document
FireError_removesElement(e, ev) ==
  /\ e \in DOMAIN doc
  /\ doc[e].fired < MaxEvents
  /\ doc' = SubSeq(doc, 1, e - 1) \o SubSeq(doc, e + 1, Len(doc))
  /\ loads' = [loads EXCEPT ![doc[e].owner] =
       IF @.variant = "emit" THEN onerror_emit(@, ev) ELSE onerror_url(@, ev)]
  /\ UNCHANGED <<grecaptcha, calls>>

\* The element's error handler is invoked with ev.
FireError(e, ev) ==
  /\ e \in DOMAIN doc
  /\ doc[e].fired < MaxEvents
  /\ doc' = [doc EXCEPT ![e].fired = @ + 1]
  /\ loads' = [loads EXCEPT ![doc[e].owner] =
       IF @.variant = "emit" THEN onerror_emit(@, ev) ELSE onerror_url(@, ev)]
  /\ UNCHANGED <<grecaptcha, calls>>

\* ---------------------------------------------------------- specifications
Init ==
  /\ grecaptcha \in BOOLEAN
  /\ doc = <<>>
  /\ loads = [l \in Loads |-> IdleLoad]
  /\ calls = [k \in {1} |-> IdleCall]

TokenNext ==
  \/ \E k \in DOMAIN calls, v \in TokenVariants, a \in TokenArgs : GetToken(k, v, a)
  \/ \E k \in DOMAIN calls : TimerFires(k)
  \/ \E k \in DOMAIN calls : HelperSettles(k)
  \/ \E k \in DOMAIN calls : PromiseAdopts(k)
  \/ \E k \in DOMAIN calls : ReadyFires(k)
  \/ \E k \in DOMAIN calls, t \in Tokens : ExecuteResolves(k, t)
  \/ \E k \in DOMAIN calls, e \in Rejections : ExecuteRejects(k, e)
  \/ VendorAppears

LoaderNext ==
  \/ \E l \in Loads, v \in LoaderVariants, t \in Targets, f \in EmitFns :
       LoadScript(l, v, t, f)
  \/ \E e \in 1..MaxLoads : FireLoad(e)
  \/ \E e \in 1..MaxLoads, ev \in ErrorEvents : FireError(e, ev)
  \/ \E l \in Loads : LoadResumes(l)
  \/ VendorAppears

Next == TokenNext \/ LoaderNext

\* The requester and the loader share nothing but window.grecaptcha, which
\* neither writes: each is checked on its own, SpecToken and SpecLoader, and
\* Spec is their composition.
SpecToken == Init /\ [][TokenNext]_vars
SpecLoader == Init /\ [][LoaderNext]_vars
Spec == Init /\ [][Next]_vars

\* The calls a page makes in normal use: a valid siteKey, the action given or
\* omitted, the retry budget omitted or 1, the attempt counter omitted or at
\* its limit.
PlainArgs ==
  {a \in TokenArgs :
     /\ a.present /\ a.siteKey = Str("K") /\ a.action \in {Undefined, Str("A")}
     /\ a.retries.given => a.retries.n = 1
     /\ a.i \in {0, RetryLimit}}

\* The requester's steps for such calls.
PlainTokenNext ==
  \/ \E k \in DOMAIN calls, v \in TokenVariants, a \in PlainArgs : GetToken(k, v, a)
  \/ \E k \in DOMAIN calls : TimerFires(k)
  \/ \E k \in DOMAIN calls : HelperSettles(k)
  \/ \E k \in DOMAIN calls : PromiseAdopts(k)
  \/ \E k \in DOMAIN calls : ReadyFires(k)
  \/ \E k \in DOMAIN calls, t \in Tokens : ExecuteResolves(k, t)
  \/ \E k \in DOMAIN calls, e \in Rejections : ExecuteRejects(k, e)
  \/ VendorAppears

\* A page that calls the loader and the requester: one getRecaptchaToken
\* call with siteKey, action and `retries: 1` given (lib/recaptcha.js has no
\* such option and ignores it).
PageArgs ==
  {a \in PlainArgs : a.action = Str("A") /\ a.retries.given}
PageNext ==
  \/ \E k \in DOMAIN calls, v \in TokenVariants, a \in PageArgs : GetToken(k, v, a)
  \/ \E k \in DOMAIN calls : TimerFires(k)
  \/ \E k \in DOMAIN calls : HelperSettles(k)
  \/ \E k \in DOMAIN calls : PromiseAdopts(k)
  \/ \E k \in DOMAIN calls : ReadyFires(k)
  \/ \E k \in DOMAIN calls, t \in Tokens : ExecuteResolves(k, t)
  \/ \E k \in DOMAIN calls, e \in Rejections : ExecuteRejects(k, e)
  \/ LoaderNext
SpecPage == Init /\ [][PageNext]_vars

\* Two getRecaptchaToken calls in flight at once.
InitConc ==
  /\ grecaptcha \in BOOLEAN
  /\ doc = <<>>
  /\ loads = [l \in Loads |-> IdleLoad]
  /\ calls = [k \in {1, 2} |-> IdleCall]
SpecConc == InitConc /\ [][PlainTokenNext]_vars

\* The event loop runs every timer that is due and every queued microtask
\* (the resumption after the helper, the adoption of a recursive call's
\* settlement); the vendor's ready-callback fires and its execute call
\* settles (the proviso of the termination claim).
TokenFairness ==
  /\ WF_vars(TimerFires(1))
  /\ WF_vars(HelperSettles(1))
  /\ WF_vars(PromiseAdopts(1))
  /\ WF_vars(ReadyFires(1))
  /\ WF_vars(\E t \in Tokens : ExecuteResolves(1, t))
SpecTokenFair == Init /\ [][TokenNext]_vars /\ TokenFairness

\* =================================================================== claims
Started(c) == c.st # "idle"
Settled(c) == c.st \in {"resolved", "rejected"}
\* _waitForRecaptcha has thrown / returned and getRecaptchaToken, suspended at
\* its await of the helper, has not resumed yet
HelperThrew(c) == c.st = "awaitHelper" /\ c.helper = "thrown"
HelperReturned(c) == c.st = "awaitHelper" /\ c.helper = "returned"
\* a recursive call of lib/recaptcha.js has settled, resolved or rejected, and
\* the caller's promise, still pending, is adopting that settlement
Adopting(c, outcome) == c.st = "adopting" /\ c.inner = outcome
\* the steps of an adoption: microtask by microtask down to the caller's
\* promise, which takes the inner settlement and nothing else
AdoptionCarries ==
  \A k \in DOMAIN calls :
    (calls[k].st = "adopting" /\ calls'[k] # calls[k]) =>
      \/ /\ calls[k].hops > 1
         /\ calls'[k] = [calls[k] EXCEPT !.hops = @ - 1]
      \/ /\ calls[k].hops = 1
         /\ calls'[k] = [calls[k] EXCEPT !.st = calls[k].inner,
                                        !.result = calls[k].innerResult,
                                        !.hops = 0]
TimeoutMessages ==
  {"Unable to load reCAPTCHA script", "reCAPTCHA script failed to load",
   "reCAPTCHA not ready"}
IsTimeoutError(v) == IsError(v) /\ v.s \in TimeoutMessages
InvalidArgumentMessages ==
  {"\"siteKey\" must be a string.", "\"action\" must be a string.",
   "Missing required params"}
IsInvalidArgument(v) == IsError(v) /\ v.s \in InvalidArgumentMessages
NonEmptyString(v) == v.t = "string" /\ v.s # ""
\* the retry budget the caller asked for: `retries`, 3 when omitted
Budget(c) == IF c.arg.retries.given THEN c.arg.retries.n ELSE 3
\* a call the polling claims are about: one that got past validation, made
\* without an attempt counter and with a budget that is a count
Polls(c) ==
  /\ Started(c)
  /\ ~(c.st = "rejected" /\ IsInvalidArgument(c.result))
  /\ c.arg.i = 0
  /\ Budget(c) >= 0

\* C1: while the vendor global has not appeared, a getToken call starts at
\* most `retries` polling delays (3 by default), and it rejects with the
\* timeout-kind error after exactly `retries` of them.
C1_TimeoutAfterExactlyRetriesDelays ==
  \A k \in DOMAIN calls :
    LET c == calls[k]
    IN (Polls(c) /\ ~grecaptcha) =>
         /\ c.delays <= Budget(c)
         /\ c.st \in {"delay", "rejected"} \/ HelperThrew(c)
              \/ Adopting(c, "rejected")
         /\ c.st = "rejected" =>
              (IsTimeoutError(c.result) /\ c.delays = Budget(c))
         /\ HelperThrew(c) =>
              (IsTimeoutError(c.helperError) /\ c.delays = Budget(c))
         /\ Adopting(c, "rejected") =>
              (IsTimeoutError(c.innerResult) /\ c.delays = Budget(c))

\* C1 restricted to the variants other than the `<=` loop, and to calls
\* without `retries` for lib/recaptcha.js, which has no such option and
\* always polls 3 times: what the rest of the code does.
C1_HoldsOutsideLe ==
  \A k \in DOMAIN calls :
    LET c == calls[k]
    IN (/\ Polls(c) /\ ~grecaptcha /\ c.variant # "le"
        /\ c.variant = "i" => ~c.arg.retries.given) =>
         /\ c.delays <= Budget(c)
         /\ c.st \in {"delay", "rejected"} \/ HelperThrew(c)
              \/ Adopting(c, "rejected")
         /\ c.st = "rejected" =>
              (IsTimeoutError(c.result) /\ c.delays = Budget(c))
         /\ HelperThrew(c) =>
              (IsTimeoutError(c.helperError) /\ c.delays = Budget(c))
         /\ Adopting(c, "rejected") =>
              (IsTimeoutError(c.innerResult) /\ c.delays = Budget(c))

\* C2: a call whose execute invocation resolved with T is resolved with
\* exactly T and never rejected, whether the vendor global was present at
\* call time or appeared during polling: from the moment execute resolved
\* the call is resolved with T, or (the global appeared during polling in
\* lib/recaptcha.js) its promise is adopting the resolution with T of the
\* recursive call, which it takes and nothing else, and it ends resolved
\* with T.
C2_ResolvesWithExecuteValue ==
  /\ [](\A k \in DOMAIN calls :
          LET c == calls[k]
          IN (Len(c.execOutcome) = 2 /\ c.execOutcome[1] = "resolved") =>
               /\ c.execOutcome[2] \in Tokens
               /\ \/ c.st = "resolved" /\ c.result = c.execOutcome[2]
                  \/ /\ Adopting(c, "resolved")
                     /\ c.innerResult = c.execOutcome[2]
                     /\ c.variant = "i" /\ c.delays > 0
                     /\ c.hops \in 1..c.depth)
  /\ [][AdoptionCarries]_vars
  /\ \A t \in Tokens :
       (calls[1].execOutcome = <<"resolved", t>>)
         ~> (calls[1].st = "resolved" /\ calls[1].result = t)

\* C2 witness: the global was absent at call time, appeared during polling
\* in lib/recaptcha.js, two recursive calls deep, and the call resolved, by
\* adoption, with the token execute produced.
C2_Witness ==
  \E k \in DOMAIN calls :
    /\ calls[k].absentAtCall /\ calls[k].delays > 0
    /\ calls[k].variant = "i" /\ calls[k].depth = 2
    /\ calls[k].inner = "resolved"
    /\ calls[k].st = "resolved" /\ calls[k].result = Str("TOK2")
    /\ calls[k].execOutcome = <<"resolved", Str("TOK2")>>

\* C4: a getToken call whose siteKey is not a non-empty string is rejected
\* with an invalid-argument error, having started no delay, read the vendor
\* global never, and invoked neither ready nor execute.
C4_InvalidSiteKeyRejectedUpFront ==
  \A k \in DOMAIN calls :
    LET c == calls[k]
    IN (Started(c) /\ ~NonEmptyString(c.arg.siteKey)) =>
         /\ c.st = "rejected" /\ IsInvalidArgument(c.result)
         /\ c.delays = 0 /\ c.reads = 0
         /\ c.readyCalls = 0 /\ c.execCalls = 0

\* C6: a call whose execute invocation rejected is rejected with the message
\* 'Unable to receive token: ' followed by the cause's message; execute is
\* invoked at most once per call, and after it no delay is pending.
C6_ExecuteFailureWrappedNotRetried ==
  \A k \in DOMAIN calls :
    LET c == calls[k]
    IN /\ c.execCalls <= 1
       /\ c.execCalls = 1 =>
            c.st \in {"executing", "adopting", "resolved", "rejected"}
       /\ (Len(c.execOutcome) = 2 /\ c.execOutcome[1] = "rejected") =>
            LET r == IF c.st = "adopting" THEN c.innerResult ELSE c.result
            IN /\ c.st = "rejected" \/ Adopting(c, "rejected")
               /\ r.t = "Error"
               /\ r.s = "Unable to receive token: " \o c.execOutcome[2].s

\* C6 restricted to causes that are Error objects: what the code does.
C6_HoldsForErrorCauses ==
  \A k \in DOMAIN calls :
    LET c == calls[k]
    IN /\ c.execCalls <= 1
       /\ c.execCalls = 1 =>
            c.st \in {"executing", "adopting", "resolved", "rejected"}
       /\ (Len(c.execOutcome) = 2 /\ c.execOutcome[1] = "rejected"
           /\ IsError(c.execOutcome[2])) =>
            LET r == IF c.st = "adopting" THEN c.innerResult ELSE c.result
            IN /\ c.st = "rejected" \/ Adopting(c, "rejected")
               /\ r.t = "Error"
               /\ r.s = "Unable to receive token: " \o c.execOutcome[2].s

\* C7: execute is invoked with the caller's siteKey and the caller's action,
\* and with action 'login' whenever the caller omits action.
C7_ExecuteGetsSiteKeyAndAction ==
  \A k \in DOMAIN calls :
    LET c == calls[k]
    IN c.execCalls > 0 =>
         c.execArgs = <<c.arg.siteKey,
                        IF c.arg.action = Undefined THEN Str("login")
                        ELSE c.arg.action>>

\* C7 restricted to the variants with per-field defaults: what they do.
C7_HoldsWithFieldDefaults ==
  \A k \in DOMAIN calls :
    LET c == calls[k]
    IN (c.execCalls > 0 /\ c.variant # "i") =>
         c.execArgs = <<c.arg.siteKey,
                        IF c.arg.action = Undefined THEN Str("login")
                        ELSE c.arg.action>>

\* C10: the attempt-counter variant called with i > 3 is rejected with
\* 'Unable to load reCAPTCHA script' at once: no delay started, the vendor
\* global not read, ready and execute not invoked, whether or not the
\* vendor global is present.
C10_AttemptLimitRejectsAtOnce ==
  \A k \in DOMAIN calls :
    LET c == calls[k]
    IN (Started(c) /\ c.variant = "i" /\ c.arg.present /\ c.arg.i > 3) =>
         /\ c.st = "rejected"
         /\ c.result = ErrorObj("Error", "Unable to load reCAPTCHA script")
         /\ c.delays = 0 /\ c.reads = 0
         /\ c.readyCalls = 0 /\ c.execCalls = 0

\* C10 witness: such a call made while the vendor global is present.
C10_Witness ==
  \E k \in DOMAIN calls :
    /\ calls[k].variant = "i" /\ calls[k].arg.i > 3 /\ grecaptcha
    /\ calls[k].st = "rejected"
    /\ calls[k].result.s = "Unable to load reCAPTCHA script"

\* ------------------------------------------------------------ loader claims
Injected(l) == loads[l].st = "called" /\ ~loads[l].fast
WrappedLoadError == [t |-> "Error", s |-> "Failed to load reCAPTCHA script"]
\* the cause the claims expect for an error handler invoked with ev
ExpectedCause(ev) ==
  IF ev.present /\ ev.error.t = "Error"
    THEN ev.error
    ELSE [t |-> "Error", s |-> "Unknown error loading reCAPTCHA"]
\* the settlement of the call's promise: what it is, or what the promise
\* awaited by the url variant has already bound it to be on resumption
Fate(ld) ==
  IF ld.variant = "url" /\ ld.promise = "pending" /\ ld.inner # "pending"
    THEN [promise |-> ld.inner, reason |-> ld.innerReason, cause |-> ld.innerCause]
    ELSE [promise |-> ld.promise, reason |-> ld.reason, cause |-> ld.cause]
EmitCount(log) == Cardinality({i \in DOMAIN log : log[i].op = "emit"})
\* the entries a step appends to the log of call l
Added(l) == SubSeq(loads'[l].log, Len(loads[l].log) + 1, Len(loads'[l].log))

\* C3: at most one script element with the sentinel id is in the document in
\* every reachable state, and exactly one once a loadScript call has
\* injected it, however many calls and load/error events follow.
C3_AtMostOneScriptElement ==
  /\ Len(doc) <= 1
  /\ Len(doc) = Cardinality({l \in Loads : Injected(l)})
  /\ (\E l \in Loads : Injected(l)) => Len(doc) = 1

\* C3 witness: two loadScript calls in succession, the first injected the
\* element, events fired on it, and one element is in the document.
C3_Witness ==
  /\ \A l \in 1..2 : loads[l].st = "called"
  /\ Injected(1) /\ ~grecaptcha
  /\ Len(doc) = 1 /\ doc[1].fired > 0

\* C5: the promise of a loadScript call that injected the element stays
\* pending until a handler of that element is invoked, the first invocation
\* settles it (load: resolved; error: rejected with the wrapped 'Failed to
\* load reCAPTCHA script' error whose cause is the original error or the
\* 'Unknown error' placeholder), and once settled it never changes.
C5_SettledOnceByFirstEvent ==
  [][/\ \A l \in Loads :
          (Fate(loads[l]).promise = "pending"
             /\ Fate(loads'[l]).promise # "pending") =>
            \E e \in DOMAIN doc :
              doc[e].owner = l /\ doc'[e].fired = doc[e].fired + 1
     /\ \A l \in Loads :
          Fate(loads[l]).promise \in {"resolved", "rejected"} =>
            Fate(loads'[l]) = Fate(loads[l])
     /\ \A l \in Loads :
          (loads[l].promise = "pending" /\ loads'[l].promise # "pending") =>
            loads'[l].promise = Fate(loads'[l]).promise
     /\ \A e \in DOMAIN doc :
          (Fate(loads[doc[e].owner]).promise = "pending" /\ FireLoad(e)) =>
            Fate(loads'[doc[e].owner]).promise = "resolved"
     /\ \A e \in DOMAIN doc, ev \in ErrorEvents :
          (Fate(loads[doc[e].owner]).promise = "pending" /\ FireError(e, ev)) =>
            Fate(loads'[doc[e].owner]) =
              [promise |-> "rejected", reason |-> WrappedLoadError,
               cause |-> ExpectedCause(ev)]
    ]_vars

\* C5 restricted to calls whose emitFn, if the variant takes one, returns
\* normally: what the code does.
C5_HoldsWhenEmitReturns ==
  [][/\ \A l \in Loads :
          (Fate(loads[l]).promise = "pending"
             /\ Fate(loads'[l]).promise # "pending") =>
            \E e \in DOMAIN doc :
              doc[e].owner = l /\ doc'[e].fired = doc[e].fired + 1
     /\ \A l \in Loads :
          Fate(loads[l]).promise \in {"resolved", "rejected"} =>
            Fate(loads'[l]) = Fate(loads[l])
     /\ \A l \in Loads :
          (loads[l].promise = "pending" /\ loads'[l].promise # "pending") =>
            loads'[l].promise = Fate(loads'[l]).promise
     /\ \A e \in DOMAIN doc :
          (Fate(loads[doc[e].owner]).promise = "pending" /\ FireLoad(e)) =>
            Fate(loads'[doc[e].owner]).promise = "resolved"
     /\ \A e \in DOMAIN doc, ev \in ErrorEvents :
          (/\ Fate(loads[doc[e].owner]).promise = "pending" /\ FireError(e, ev)
           /\ (loads[doc[e].owner].variant = "url"
                  \/ loads[doc[e].owner].emitFn = "fn")) =>
            Fate(loads'[doc[e].owner]) =
              [promise |-> "rejected", reason |-> WrappedLoadError,
               cause |-> ExpectedCause(ev)]
    ]_vars

\* C8: a loadScript call made while the vendor global is present or an
\* element with the sentinel id exists (its load pending, succeeded or
\* failed) is resolved at once and changes nothing else: the document, the
\* element's handlers and event count, and the other calls stay as they were.
C8_FastPathLeavesDocumentUnchanged ==
  [][\A l \in Loads :
       (/\ loads[l].st = "idle" /\ loads'[l].st = "called"
        /\ (grecaptcha \/ Len(doc) > 0)) =>
         /\ doc' = doc
         /\ loads'[l].promise = "resolved"
         /\ \A j \in Loads \ {l} : loads'[j] = loads[j]
    ]_vars

\* C8 witness: the element's load has failed (its owner's promise is
\* rejected), the vendor global is absent, and a later call took the fast
\* path and is resolved.
C8_Witness ==
  /\ Len(doc) = 1 /\ ~grecaptcha
  /\ loads[doc[1].owner].promise = "rejected"
  /\ \E l \in Loads : loads[l].st = "called" /\ loads[l].fast
                         /\ loads[l].promise = "resolved"

\* C9: in the emitFn variant, an invocation of the error handler calls a
\* supplied emitFn exactly once, with the original (unwrapped) error, before
\* the promise is rejected with the wrapped error; a load-handler invocation
\* and a loadScript call (fast path or not) never call emitFn.
C9_EmitOnceBeforeReject ==
  [][/\ \A e \in DOMAIN doc, ev \in ErrorEvents :
          (/\ FireError(e, ev)
           /\ loads[doc[e].owner].variant = "emit"
           /\ loads[doc[e].owner].emitFn # "absent") =>
            /\ Len(Added(doc[e].owner)) >= 1
            /\ Added(doc[e].owner)[1] = [op |-> "emit", err |-> ExpectedCause(ev)]
            /\ EmitCount(Added(doc[e].owner)) = 1
            /\ \A i \in 2..Len(Added(doc[e].owner)) :
                 Added(doc[e].owner)[i] = [op |-> "reject", err |-> WrappedLoadError]
            /\ (loads[doc[e].owner].promise = "pending"
                 /\ loads'[doc[e].owner].promise = "rejected") =>
                   Len(Added(doc[e].owner)) = 2
     /\ \A e \in DOMAIN doc :
          FireLoad(e) => EmitCount(Added(doc[e].owner)) = 0
     /\ \A l \in Loads :
          (loads[l].st = "idle" /\ loads'[l].st = "called") =>
            EmitCount(loads'[l].log) = 0
    ]_vars

\* C9 witness: the error handler ran with an ErrorEvent, emitFn got the
\* original error, and then the promise was rejected with the wrapped one.
C9_Witness ==
  \E l \in Loads :
    /\ loads[l].variant = "emit" /\ loads[l].emitFn = "fn"
    /\ loads[l].promise = "rejected"
    /\ loads[l].log = <<[op |-> "emit", err |-> [t |-> "Error", s |-> "net"]],
                        [op |-> "reject", err |-> WrappedLoadError]>>

\* ---------------------------------------------------- requester claims, ctd
\* the retry budget admits no pass of the polling loop
NoIteration(c) ==
  \/ c.variant = "le" /\ c.arg.retries.given /\ c.arg.retries.n < 0
  \/ c.variant \in {"lt", "wait"} /\ c.arg.retries.given /\ c.arg.retries.n <= 0
PassedValidation(c) ==
  Started(c) /\ ~(c.st = "rejected" /\ IsInvalidArgument(c.result))

\* C11 as stated: a call with a valid siteKey whose retry budget admits no
\* polling iteration is rejected with 'reCAPTCHA not ready', with no delay
\* and without ready or execute, even if the vendor global is present.
C11_NoIterationNotReady ==
  \A k \in DOMAIN calls :
    LET c == calls[k]
    IN (PassedValidation(c) /\ NoIteration(c)) =>
         /\ c.st = "rejected"
         /\ c.result = [t |-> "Error", s |-> "reCAPTCHA not ready"]
         /\ c.delays = 0 /\ c.readyCalls = 0 /\ c.execCalls = 0

\* C11 amended: a call whose input passes validation and whose retry budget
\* admits no polling iteration is rejected with its variant's timeout error,
\* with no delay and without ready or execute, even if the vendor global is
\* present: with 'reCAPTCHA not ready' from the inline loops, already
\* rejected when the call returns, and with the TimeoutError 'reCAPTCHA
\* script failed to load' from _waitForRecaptcha, whose throw reaches the
\* call's promise in the microtask that resumes the caller and nothing else.
C11_NoIterationTimeoutOfVariant ==
  /\ [](\A k \in DOMAIN calls :
          LET c == calls[k]
              e == IF c.variant = "wait"
                     THEN [t |-> "TimeoutError",
                           s |-> "reCAPTCHA script failed to load"]
                     ELSE [t |-> "Error", s |-> "reCAPTCHA not ready"]
          IN (PassedValidation(c) /\ NoIteration(c)) =>
               /\ \/ c.st = "rejected" /\ c.result = e
                  \/ c.variant = "wait" /\ HelperThrew(c) /\ c.helperError = e
               /\ c.delays = 0 /\ c.readyCalls = 0 /\ c.execCalls = 0)
  /\ [][\A k \in DOMAIN calls :
          (HelperThrew(calls[k]) /\ calls'[k] # calls[k]) =>
            /\ calls'[k].st = "rejected"
            /\ calls'[k].result = calls[k].helperError
       ]_vars

\* C11 witness: retries = -1 in the `<=` loop variant, the vendor global
\* present, the call rejected with 'reCAPTCHA not ready'.
C11_Witness ==
  \E k \in DOMAIN calls :
    /\ calls[k].variant = "le" /\ calls[k].arg.retries = [given |-> TRUE, n |-> -1]
    /\ calls[k].arg.siteKey = Str("K") /\ grecaptcha
    /\ calls[k].st = "rejected" /\ calls[k].result.s = "reCAPTCHA not ready"

\* the terminal outcomes of the requester's state machine
IsTimeoutOutcome(c) ==
  /\ c.st = "rejected" /\ IsTimeoutError(c.result)
  /\ c.readyCalls = 0 /\ c.execCalls = 0 /\ c.execOutcome = <<>>
IsDoneOutcome(c) ==
  /\ c.st = "resolved" /\ c.execCalls = 1
  /\ Len(c.execOutcome) = 2 /\ c.execOutcome[1] = "resolved"
IsExecuteFailedOutcome(c) ==
  /\ c.st = "rejected" /\ c.execCalls = 1
  /\ Len(c.execOutcome) = 2 /\ c.execOutcome[1] = "rejected"
IsInvalidArgumentOutcome(c) ==
  /\ c.st = "rejected" /\ IsInvalidArgument(c.result)
  /\ c.delays = 0 /\ c.reads = 0 /\ c.readyCalls = 0 /\ c.execCalls = 0
\* the order of the steps: ready is called only with the vendor global
\* present, execute only from the wait for the ready-callback; the timeout
\* is raised only from polling (by the call itself or at the end of a
\* delay, before ready was ever called), and it reaches the caller's promise
\* from there, through the helper's throw or through the adoption of the
\* recursive call's rejection, and from nowhere else
StepsInOrder ==
  /\ [](\A k \in DOMAIN calls :
          /\ calls[k].readyCalls > 0 => grecaptcha
          /\ calls[k].execCalls > 0 => (grecaptcha /\ calls[k].readyCalls = 1))
  /\ [][\A k \in DOMAIN calls :
          /\ calls'[k].execCalls > calls[k].execCalls =>
               (calls[k].st = "ready" /\ calls'[k].st = "executing")
          /\ (calls'[k].st = "rejected" /\ calls[k].st # "rejected"
               /\ IsTimeoutError(calls'[k].result)) =>
                 \/ calls[k].st \in {"idle", "delay"}
                 \/ HelperThrew(calls[k])
                 \/ /\ Adopting(calls[k], "rejected")
                    /\ calls[k].innerResult = calls'[k].result
          /\ (Adopting(calls'[k], "rejected") /\ calls[k].st # "adopting"
               /\ IsTimeoutError(calls'[k].innerResult)) =>
                 (calls[k].st = "delay" /\ calls[k].readyCalls = 0)
          /\ (HelperThrew(calls'[k]) /\ ~HelperThrew(calls[k])) =>
               calls[k].st \in {"idle", "delay"}
          /\ AdoptionCarries
       ]_vars

\* C13 as stated: execute is invoked only after the vendor global was
\* observed present and the ready-callback fired, and every terminal outcome
\* is exactly one of TIMEOUT (never after the global was observed present),
\* DONE or EXECUTE_FAILED.
C13_StateMachine ==
  /\ StepsInOrder
  /\ [](\A k \in DOMAIN calls :
          Settled(calls[k]) =>
            \/ IsTimeoutOutcome(calls[k])
            \/ IsDoneOutcome(calls[k])
            \/ IsExecuteFailedOutcome(calls[k]))

\* C13 amended: the same, with a fourth terminal outcome: INVALID_ARGUMENT,
\* the rejection by input validation, reached from INIT before any step.
C13_StateMachineWithValidation ==
  /\ StepsInOrder
  /\ [](\A k \in DOMAIN calls :
          Settled(calls[k]) =>
            \/ IsInvalidArgumentOutcome(calls[k])
            \/ IsTimeoutOutcome(calls[k])
            \/ IsDoneOutcome(calls[k])
            \/ IsExecuteFailedOutcome(calls[k]))

\* C13 witness: a call that polled, saw the global, waited for ready, invoked
\* execute and ended EXECUTE_FAILED.
C13_Witness ==
  \E k \in DOMAIN calls :
    /\ calls[k].delays > 0 /\ calls[k].readyCalls = 1
    /\ IsExecuteFailedOutcome(calls[k])

\* C14: the vendor global is rechecked after every polling delay, the last
\* one included: a delay that ends with the global present is followed by
\* the read of the global and the ready step, never by the timeout error.
C14_RecheckAfterEveryDelay ==
  [][\A k \in DOMAIN calls :
       (calls[k].st = "delay" /\ calls'[k] # calls[k] /\ grecaptcha) =>
         /\ calls'[k].st = "ready" \/ HelperReturned(calls'[k])
         /\ calls'[k].reads = calls[k].reads + 1
    ]_vars

\* C14 restricted to the attempt-counter variant: what lib/recaptcha.js does.
C14_HoldsForAttemptCounter ==
  [][\A k \in DOMAIN calls :
       (/\ calls[k].st = "delay" /\ calls'[k] # calls[k] /\ grecaptcha
        /\ calls[k].variant = "i") =>
         /\ calls'[k].st = "ready"
         /\ calls'[k].reads = calls[k].reads + 1
    ]_vars

\* --------------------------------------------------- page and loader claims
\* C12: a getRecaptchaToken call made while the vendor global is absent and
\* no script element with the sentinel id exists injects a script element
\* into the document.
C12_GetTokenLoadsScript ==
  [][\A k \in DOMAIN calls :
       (/\ calls[k].st = "idle" /\ calls'[k].st # "idle"
        /\ ~grecaptcha /\ Len(doc) = 0) =>
         Len(doc') = 1
    ]_vars

\* What the requester does instead: no step of a getRecaptchaToken call
\* changes the document.
C12_GetTokenLeavesDocument ==
  [][calls' # calls => doc' = doc]_vars

\* C16: no step removes or replaces a script element once it is in the
\* document (an error event included), and no step of loadScript, of its
\* handlers or of getToken sets or clears window.grecaptcha.
C16_ElementStaysGlobalUntouched ==
  [][/\ Len(doc') >= Len(doc)
     /\ \A e \in DOMAIN doc :
          doc'[e].owner = doc[e].owner /\ doc'[e].src = doc[e].src
     /\ (calls' # calls \/ loads' # loads \/ doc' # doc) =>
          grecaptcha' = grecaptcha
    ]_vars

\* C16 witness: the element's error handler has run and rejected the
\* loader's promise, a getToken call has timed out, the element is still in
\* the document and the vendor global is still absent.
C16_Witness ==
  /\ Len(doc) = 1 /\ doc[1].fired > 0
  /\ loads[doc[1].owner].promise = "rejected"
  /\ \E k \in DOMAIN calls : IsTimeoutOutcome(calls[k]) /\ calls[k].delays > 0
  /\ ~grecaptcha

\* C17: a load failure is reported only to the call that injected the
\* element: a rejected call is the owner of the one element, which stays in
\* the document; every other call, made while the load was pending or after
\* it failed, took the fast path, is resolved, was never touched by an event
\* and injected nothing.
C17_FailureOnlyToInjector ==
  /\ \A l \in Loads :
       loads[l].promise = "rejected" =>
         (Len(doc) = 1 /\ doc[1].owner = l /\ Injected(l))
  /\ \A l \in Loads :
       (loads[l].st = "called" /\ Len(doc) >= 1 /\ doc[1].owner # l) =>
         /\ loads[l].fast /\ loads[l].promise = "resolved"
         /\ loads[l].reason = Undefined /\ loads[l].log = <<>>
  /\ \A l \in Loads :
       (loads[l].st = "called" /\ loads[l].fast) => loads[l].promise = "resolved"

\* C17 witness: a call made while the first load is still pending is already
\* resolved, before any event, with the vendor global absent.
C17_Witness ==
  /\ Len(doc) = 1 /\ doc[1].fired = 0 /\ ~grecaptcha
  /\ loads[doc[1].owner].promise = "pending"
  /\ \E l \in Loads : l # doc[1].owner /\ loads[l].promise = "resolved"

\* a call of the emitFn variant whose emitFn is absent or throws
BadEmit(l) ==
  /\ loads[l].st = "called" /\ loads[l].variant = "emit"
  /\ loads[l].emitFn \in {"absent", "throws"}

\* C18: in the emitFn variant with emitFn absent or throwing, reject is
\* never reached: the promise is never rejected, an error-handler invocation
\* leaves it as it was, and nothing but an invocation of the element's load
\* handler takes it out of pending.
C18_BadEmitNeverRejects ==
  /\ [](\A l \in Loads :
          BadEmit(l) =>
            /\ loads[l].promise # "rejected"
            /\ \A i \in DOMAIN loads[l].log : loads[l].log[i].op # "reject")
  /\ [][/\ \A e \in DOMAIN doc, ev \in ErrorEvents :
              (FireError(e, ev) /\ BadEmit(doc[e].owner)) =>
                loads'[doc[e].owner].promise = loads[doc[e].owner].promise
        /\ \A l \in Loads :
             (BadEmit(l) /\ loads[l].promise = "pending"
              /\ loads'[l].promise # "pending") =>
               \E d \in DOMAIN doc : doc[d].owner = l /\ FireLoad(d)
       ]_vars

\* C18 witness: the error handler ran, emitFn was called and threw, and the
\* promise is still pending.
C18_Witness ==
  \E l \in Loads :
    /\ BadEmit(l) /\ loads[l].emitFn = "throws"
    /\ EmitCount(loads[l].log) >= 1
    /\ loads[l].promise = "pending"

\* ------------------------------------------------ concurrency, termination
\* the number of polling delays after which a call times out
OwnDelays(c) ==
  CASE c.variant = "i" -> IF c.arg.i = 0 THEN 3 ELSE 4 - c.arg.i
    [] c.variant = "le" -> Budget(c) + 1
    [] OTHER -> Budget(c)

\* C15: concurrent getToken calls are independent: a step of one call
\* changes no other call; each call polls within its own budget and times
\* out after its own number of delays; each settles with the outcome of its
\* own execute invocation, and every resolved call made one execute
\* invocation of its own.
C15_ConcurrentCallsIndependent ==
  /\ [](\A k \in DOMAIN calls :
          LET c == calls[k]
          IN /\ c.delays <= OwnDelays(c)
             /\ IsTimeoutOutcome(c) => c.delays = OwnDelays(c)
             /\ c.st = "resolved" =>
                  (c.execCalls = 1 /\ c.execOutcome = <<"resolved", c.result>>)
             /\ (Len(c.execOutcome) = 2 /\ c.execOutcome[1] = "rejected") =>
                  (c.st = "rejected" \/ Adopting(c, "rejected"))
             /\ (Len(c.execOutcome) = 2 /\ c.execOutcome[1] = "resolved") =>
                  \/ c.st = "resolved"
                  \/ Adopting(c, "resolved") /\ c.innerResult = c.execOutcome[2]
             /\ c.execCalls <= 1)
  /\ [][/\ \A k \in DOMAIN calls :
             calls'[k] # calls[k] =>
               \A j \in DOMAIN calls \ {k} : calls'[j] = calls[j]
        /\ AdoptionCarries
       ]_vars

\* C15 witness: two calls polled at the same time; the first one's execute
\* resolved in a recursive call of lib/recaptcha.js and its promise is still
\* adopting that token when the second, whose execute resolved with another
\* token, is already resolved with its own.
C15_Witness ==
  /\ calls[1].absentAtCall /\ calls[2].absentAtCall
  /\ Adopting(calls[1], "resolved") /\ calls[1].delays >= 1
  /\ calls[1].execOutcome = <<"resolved", Str("TOK")>>
  /\ calls[2].delays >= 1 /\ calls[2].execCalls = 1
  /\ calls[2].st = "resolved" /\ calls[2].result = Str("TOK2")

\* C19: if timers fire, the ready-callback fires and execute settles, every
\* getToken call eventually settles; the retry budget bounds the polling
\* only: a call waiting for the ready-callback or for execute starts no
\* delay and is moved by nothing but that callback or that settlement.
C19_SettlesUnlessVendorStalls ==
  /\ \A k \in {1} : (calls[k].st # "idle") ~> Settled(calls[k])
  /\ [][\A k \in DOMAIN calls :
          calls[k].st \in {"ready", "executing"} =>
            /\ calls'[k].delays = calls[k].delays
            /\ calls'[k] # calls[k] =>
                 \/ calls[k].st = "ready" /\ calls'[k].st = "executing"
                 \/ /\ calls[k].st = "executing"
                    /\ Settled(calls'[k]) \/ calls'[k].st = "adopting"
                    /\ Len(calls'[k].execOutcome) = 2
       ]_vars

\* C19 witness: a call that used its whole default budget of delays, saw the
\* global after the last one, three recursive calls deep, and settled through
\* ready, execute and the adoption of the innermost call's resolution.
C19_Witness ==
  \E k \in DOMAIN calls :
    /\ calls[k].variant = "i" /\ calls[k].delays = 3 /\ calls[k].depth = 3
    /\ calls[k].readyCalls = 1 /\ calls[k].execCalls = 1
    /\ calls[k].inner = "resolved" /\ Settled(calls[k])
====
